---- MODULE Spec2Model ----
(***************************************************************************)
(* Model of the Kakineha Coffee Beverages backend (src/main.py,            *)
(* src/schemas.py): the request handlers over the four store collections   *)
(* user, product, order and payment.                                       *)
(*                                                                         *)
(* Every handler is an `async def` without an await, so inside one worker  *)
(* it runs to completion: the shop and payment specifications take one     *)
(* step per request.  The registration specification models several        *)
(* workers over one store; there a handler is one step per store           *)
(* operation (find_one, insert_one).  The store handle db of database.py   *)
(* is present in every specification.                                      *)
(*                                                                         *)
(* Amounts (Python float) are counted in 1/Scale currency units.  Scale is *)
(* a power of two, so every modelled amount and every sum of them is an    *)
(* exact double and the comparison against 0.01 is the code's comparison.  *)
(***************************************************************************)
EXTENDS Integers, Sequences, FiniteSets, TLC

VARIABLES users, products, orders, payments, nextOid, now, resp, reqs

vars == <<users, products, orders, payments, nextOid, now, resp, reqs>>

(***************************************************************************)
(* Bounds                                                                  *)
(***************************************************************************)
MaxProducts == 2
MaxOrders == 2
MaxPayments == 3
MaxUsers == 3
MaxItems == 2
MaxBulk == 2
MaxTicks == 2
NumWorkers == 2

(***************************************************************************)
(* Values                                                                  *)
(***************************************************************************)
None == "<None>"
Scale == 2 ^ 7
TickMinutes == 12 * 60
ACCESS_TOKEN_EXPIRE_MINUTES == 60 * 24
SECRET_KEY == "supersecretkey-change-me"
SEED_ADMIN_EMAIL == "admin@example.com"
SEED_ADMIN_PASSWORD == "Admin@123"

Roles == {"admin", "user"}
StatusVocabulary == {"pending", "paid", "failed", "cancelled", "fulfilled"}

\* A path or body string standing for an id: the 24 hex digits of ObjectId n
\* (hex = TRUE) or any other text (hex = FALSE).
Malformed == [hex |-> FALSE, n |-> 0]

IdStrings == [hex : {TRUE}, n : 1..5] \cup {Malformed}

\* str(ObjectId)
Str(oid) == [hex |-> TRUE, n |-> oid]

\* ObjectId(s) raises bson.errors.InvalidId unless s is 24 hex digits
InvalidId(s) == ~s.hex

ObjectId(s) == s.n

\* collection.find_one({"_id": oid}) / update_one matched_count
Matches(coll, oid) == {i \in DOMAIN coll : coll[i]._id = oid}

find_one(coll, oid) == coll[CHOOSE i \in Matches(coll, oid) : TRUE]

\* update_one({"_id": oid}, {"$set": updates}): updates is a record
SetFields(doc, updates) ==
  [f \in DOMAIN doc \cup DOMAIN updates |->
     IF f \in DOMAIN updates THEN updates[f] ELSE doc[f]]

update_one(coll, oid, updates) ==
  [i \in DOMAIN coll |->
     IF i = (CHOOSE j \in Matches(coll, oid) : TRUE)
     THEN SetFields(coll[i], updates) ELSE coll[i]]

\* serialize_doc: "_id" is replaced by its string under "id"
serialize_doc(doc) ==
  [f \in (DOMAIN doc \ {"_id"}) \cup {"id"} |->
     IF f = "id" THEN Str(doc._id) ELSE doc[f]]

\* create_document(collection, data): insert with a store-assigned id
create_document(coll, data, oid) ==
  Append(coll, SetFields(data, [_id |-> oid]))

(***************************************************************************)
(* Passwords and credentials                                               *)
(***************************************************************************)
get_password_hash(password) == <<"pbkdf2_sha256", password>>

verify_password(plain, hashed) == hashed = get_password_hash(plain)

create_access_token(sub, role, t) ==
  [sub |-> sub, role |-> role, exp |-> t + ACCESS_TOKEN_EXPIRE_MINUTES,
   key |-> SECRET_KEY]

\* jwt.decode: InvalidTokenError on a wrong signature or exp <= now
InvalidToken(token, t) == token.key # SECRET_KEY \/ token.exp <= t

\* get_current_user: 0 when the credential resolves, else the status raised
CredentialStatus(token, t, userColl) ==
  IF InvalidToken(token, t) THEN 401
  ELSE IF Matches(userColl, ObjectId(token.sub)) = {} THEN 401
  ELSE 0

get_current_user(token, userColl) == find_one(userColl, ObjectId(token.sub))

\* require_admin without its role comparison
require_admin_no_role(token, t, userColl) == CredentialStatus(token, t, userColl)

\* require_admin on top of get_current_user: 0 when admitted
require_admin(token, t, userColl) ==
  IF CredentialStatus(token, t, userColl) # 0
  THEN CredentialStatus(token, t, userColl)
  ELSE IF get_current_user(token, userColl).role # "admin" THEN 403
  ELSE 0

\* Bearer tokens a client may present: issued by login on the first or the
\* second day to the admin (1), to the user (2) or to a subject the user
\* store does not hold (3), and copies of them whose signature does not
\* verify.
IssuedTokens ==
  {create_access_token(Str(c.oid), c.role, t) :
     c \in {[oid |-> 1, role |-> "admin"], [oid |-> 2, role |-> "user"],
            [oid |-> 3, role |-> "admin"]},
     t \in {0, ACCESS_TOKEN_EXPIRE_MINUTES}}

Tokens == IssuedTokens \cup {[t EXCEPT !.key = "forged"] : t \in IssuedTokens}

\* the tokens among them that expire last
ShopTokens == {t \in Tokens : t.exp = 2 * ACCESS_TOKEN_EXPIRE_MINUTES}

Error(op, code, detail) == [op |-> op, code |-> code, body |-> [detail |-> detail]]

Ok(op, body) == [op |-> op, code |-> 200, body |-> body]

(***************************************************************************)
(* Inputs                                                                  *)
(***************************************************************************)
RECURSIVE SumTotals(_)
\* sum(item.total for item in order.items)
SumTotals(items) ==
  IF items = <<>> THEN 0 ELSE items[1].total + SumTotals(Tail(items))

\* OrderItem: quantity > 0, unit_price >= 0, total >= 0 (the total is not
\* tied to quantity * unit_price)
OrderItems ==
  [product_id : {Str(9)}, name : {"Arabica"}, quantity : {Scale},
   unit_price : {Scale}, total : {0, 1}]

ItemLists == UNION {[1..n -> OrderItems] : n \in 0..MaxItems}

Customer ==
  [full_name |-> "Ann", phone |-> "0700", email |-> None, address |-> None]

\* Order: subtotal >= 0, status any string (default "pending")
OrderInputs ==
  [customer : {Customer}, items : ItemLists, subtotal : {0, 1, 2},
   payment_method : {"mobile_money"}, status : {"pending", "shipped"},
   notes : {None}]

\* OrderStatusUpdate: status any string, notes optional
StatusUpdates == [status : {"paid", "refunded"}, notes : {None, "call first"}]

\* Product: price >= 0
ProductInputs ==
  [name : {"Arabica"}, description : {"Fresh"}, price : {Scale},
   category : {"beans"}, brand : {"Kakineha"}, type : {None}, unit : {"kg"},
   in_stock : {TRUE}, image_url : {None}]

Prices == {0, 3 * Scale}

\* ProductAdminUpdate as parsed: the values of all fields and the set of
\* fields the request body named (pydantic's model_fields_set)
UpdateValues ==
  [name |-> "Robusta", description |-> None, price |-> 5 * Scale,
   category |-> "ground", brand |-> "Nucafe", type |-> "Robusta",
   unit |-> "bag", in_stock |-> FALSE, image_url |-> None]

ProductAdminUpdates ==
  [values : {UpdateValues},
   fields_set : {{}, {"price"}, {"description"}, {"name", "in_stock"}}]

\* payload.model_dump(exclude_unset=True)
model_dump_exclude_unset(payload) ==
  [f \in payload.fields_set |-> payload.values[f]]

BulkPriceItems == [product_id : {Str(3), Str(4), Str(5), Malformed}, price : Prices]

BulkPriceUpdates == UNION {[1..n -> BulkPriceItems] : n \in 0..MaxBulk}

(***************************************************************************)
(* Admin: product management                                               *)
(***************************************************************************)
AuthError(op, code) ==
  IF code = 401 THEN Error(op, 401, "Could not validate credentials")
  ELSE Error(op, 403, "Admin access required")

PriceSet(price, t) == [price |-> price, updated_at |-> t]

update_product_price(token, product_id, price) ==
  LET gate == require_admin(token, now, users) IN
  /\ resp' =
       IF gate # 0 THEN AuthError("update_product_price", gate)
       ELSE IF InvalidId(product_id)
         THEN Error("update_product_price", 500, "InvalidId")
       ELSE IF Matches(products, ObjectId(product_id)) = {}
         THEN Error("update_product_price", 404, "Product not found")
       ELSE Ok("update_product_price", [id |-> product_id, price |-> price])
  /\ products' =
       IF gate = 0 /\ ~InvalidId(product_id)
          /\ Matches(products, ObjectId(product_id)) # {}
       THEN update_one(products, ObjectId(product_id), PriceSet(price, now))
       ELSE products
  /\ UNCHANGED <<users, orders, payments, nextOid, now, reqs>>

admin_update_product(token, product_id, payload) ==
  LET gate == require_admin(token, now, users)
      updates == model_dump_exclude_unset(payload)
      stamped == SetFields(updates, [updated_at |-> now])
      hit == /\ gate = 0
             /\ DOMAIN updates # {}
             /\ ~InvalidId(product_id)
             /\ Matches(products, ObjectId(product_id)) # {}
      after == IF hit THEN update_one(products, ObjectId(product_id), stamped)
               ELSE products
  IN
  /\ resp' =
       IF gate # 0 THEN AuthError("admin_update_product", gate)
       ELSE IF DOMAIN updates = {}
         THEN Error("admin_update_product", 400, "No fields to update")
       ELSE IF InvalidId(product_id)
         THEN Error("admin_update_product", 500, "InvalidId")
       ELSE IF ~hit
         THEN Error("admin_update_product", 404, "Product not found")
       ELSE Ok("admin_update_product",
               serialize_doc(find_one(after, ObjectId(product_id))))
  /\ products' = after
  /\ UNCHANGED <<users, orders, payments, nextOid, now, reqs>>

RECURSIVE BulkLoop(_, _, _, _)
\* the for loop of bulk_update_prices from item i on: the collection, the
\* count of matched items, and whether ObjectId raised
BulkLoop(coll, items, i, t) ==
  IF i > Len(items) THEN [coll |-> coll, updated |-> 0, raised |-> FALSE]
  ELSE IF InvalidId(items[i].product_id)
    THEN [coll |-> coll, updated |-> 0, raised |-> TRUE]
  ELSE LET oid == ObjectId(items[i].product_id)
           matched == Matches(coll, oid) # {}
           next == IF matched
                   THEN update_one(coll, oid, PriceSet(items[i].price, t))
                   ELSE coll
           rest == BulkLoop(next, items, i + 1, t)
       IN [coll |-> rest.coll,
           updated |-> rest.updated + (IF matched THEN 1 ELSE 0),
           raised |-> rest.raised]

bulk_update_prices(token, items) ==
  LET gate == require_admin(token, now, users)
      run == BulkLoop(products, items, 1, now)
  IN
  /\ resp' =
       IF gate # 0 THEN AuthError("bulk_update_prices", gate)
       ELSE IF run.raised THEN Error("bulk_update_prices", 500, "InvalidId")
       ELSE Ok("bulk_update_prices",
               [updated |-> run.updated, total |-> Len(items)])
  /\ products' = IF gate = 0 THEN run.coll ELSE products
  /\ UNCHANGED <<users, orders, payments, nextOid, now, reqs>>

create_product(product) ==
  /\ Len(products) < MaxProducts
  /\ products' = create_document(products, product, nextOid)
  /\ nextOid' = nextOid + 1
  /\ resp' = Ok("create_product", [id |-> Str(nextOid)])
  /\ UNCHANGED <<users, orders, payments, now, reqs>>

(***************************************************************************)
(* Orders                                                                  *)
(***************************************************************************)
\* the comparison without abs()
SubtotalMismatchSigned(calc_subtotal, subtotal) ==
  100 * (calc_subtotal - subtotal) > Scale

\* abs(calc_subtotal - order.subtotal) > 0.01, amounts in 1/Scale units
SubtotalMismatch(calc_subtotal, subtotal) ==
  LET diff == calc_subtotal - subtotal
      abs == IF diff < 0 THEN -diff ELSE diff
  IN 100 * abs > Scale

create_order(order) ==
  /\ Len(orders) < MaxOrders
  /\ IF SubtotalMismatch(SumTotals(order.items), order.subtotal)
     THEN /\ resp' = Error("create_order", 400, "Subtotal mismatch")
          /\ UNCHANGED <<orders, nextOid>>
     ELSE /\ orders' = create_document(orders, order, nextOid)
          /\ nextOid' = nextOid + 1
          /\ resp' = Ok("create_order",
                        [order_id |-> Str(nextOid), status |-> "pending"])
  /\ UNCHANGED <<users, products, payments, now, reqs>>

Take(seq, n) == SubSeq(seq, 1, IF n < Len(seq) THEN n ELSE Len(seq))

\* get_documents(collection, query, limit) with an optional status filter
get_documents(coll, status, limit) ==
  Take(SelectSeq(coll, LAMBDA d : status = None \/ d.status = status), limit)

SerializeAll(docs) == [i \in DOMAIN docs |-> serialize_doc(docs[i])]

admin_list_orders(token, status, limit) ==
  LET gate == require_admin(token, now, users) IN
  /\ resp' =
       IF gate # 0 THEN AuthError("admin_list_orders", gate)
       ELSE Ok("admin_list_orders",
               [docs |-> SerializeAll(get_documents(orders, status, limit))])
  /\ UNCHANGED <<users, products, orders, payments, nextOid, now, reqs>>

admin_get_order(token, order_id) ==
  LET gate == require_admin(token, now, users) IN
  /\ resp' =
       IF gate # 0 THEN AuthError("admin_get_order", gate)
       ELSE IF InvalidId(order_id)
         THEN Error("admin_get_order", 500, "InvalidId")
       ELSE IF Matches(orders, ObjectId(order_id)) = {}
         THEN Error("admin_get_order", 404, "Order not found")
       ELSE Ok("admin_get_order",
               serialize_doc(find_one(orders, ObjectId(order_id))))
  /\ UNCHANGED <<users, products, orders, payments, nextOid, now, reqs>>

admin_update_order(token, order_id, payload) ==
  LET gate == require_admin(token, now, users)
      updates ==
        IF payload.notes # None
        THEN [status |-> payload.status, notes |-> payload.notes,
              updated_at |-> now]
        ELSE [status |-> payload.status, updated_at |-> now]
      hit == /\ gate = 0
             /\ ~InvalidId(order_id)
             /\ Matches(orders, ObjectId(order_id)) # {}
      after == IF hit THEN update_one(orders, ObjectId(order_id), updates)
               ELSE orders
  IN
  /\ resp' =
       IF gate # 0 THEN AuthError("admin_update_order", gate)
       ELSE IF InvalidId(order_id)
         THEN Error("admin_update_order", 500, "InvalidId")
       ELSE IF ~hit THEN Error("admin_update_order", 404, "Order not found")
       ELSE Ok("admin_update_order",
               serialize_doc(find_one(after, ObjectId(order_id))))
  /\ orders' = after
  /\ UNCHANGED <<users, products, payments, nextOid, now, reqs>>

\* the clock read by datetime.utcnow() and by jwt.decode
Tick ==
  /\ now < MaxTicks * TickMinutes
  /\ now' = now + TickMinutes
  /\ UNCHANGED <<users, products, orders, payments, nextOid, resp, reqs>>

(***************************************************************************)
(* Specifications of the shop                                              *)
(***************************************************************************)
NoResp == [op |-> "none", code |-> 0, body |-> [detail |-> "none"]]

UserDoc(oid, email, password, role, full_name, t) ==
  [_id |-> oid, email |-> email, password |-> get_password_hash(password),
   role |-> role, full_name |-> full_name, created_at |-> t, updated_at |-> t]

\* the user store after seed_admin and one registration
SeededUsers ==
  <<UserDoc(1, SEED_ADMIN_EMAIL, SEED_ADMIN_PASSWORD, "admin", "Admin", 0),
    UserDoc(2, "ann@example.com", "secret", "user", "Ann", 0)>>

Idle == [w \in 1..NumWorkers |-> [pc |-> "idle"]]

InitShop ==
  /\ users = SeededUsers
  /\ products = <<>>
  /\ orders = <<>>
  /\ payments = <<>>
  /\ nextOid = 3
  /\ now = 0
  /\ resp = NoResp
  /\ reqs = Idle

\* orders that leave the status to its default
NewOrders == {o \in OrderInputs : o.status = "pending"}

NextCreate == \E order \in NewOrders : create_order(order)

SpecCreate == InitShop /\ [][NextCreate]_vars

SampleOrders ==
  {o \in OrderInputs : o.subtotal = 1 /\ Len(o.items) = 2 /\ o.items[1].total = 0}

NextOrders ==
  \/ \E order \in SampleOrders : create_order(order)
  \/ \E token \in ShopTokens, status \in {None, "paid"}, limit \in {1, 100} :
       admin_list_orders(token, status, limit)
  \/ \E token \in ShopTokens, order_id \in IdStrings :
       admin_get_order(token, order_id)
  \/ \E token \in ShopTokens, order_id \in IdStrings, payload \in StatusUpdates :
       admin_update_order(token, order_id, payload)

SpecOrders == InitShop /\ [][NextOrders]_vars

NextCatalog ==
  \/ \E product \in ProductInputs : create_product(product)
  \/ \E token \in ShopTokens, product_id \in IdStrings, price \in Prices :
       update_product_price(token, product_id, price)
  \/ \E token \in ShopTokens, product_id \in IdStrings,
        payload \in ProductAdminUpdates :
       admin_update_product(token, product_id, payload)
  \/ \E token \in ShopTokens, items \in BulkPriceUpdates :
       bulk_update_prices(token, items)

SpecCatalog == InitShop /\ [][NextCatalog]_vars

\* a store holding one product and one order, for the admin requests
GateProduct == CHOOSE p \in ProductInputs : p.price = Scale

GateOrder ==
  CHOOSE o \in OrderInputs :
    o.items = <<>> /\ o.subtotal = 0 /\ o.status = "pending"

InitGate ==
  /\ users = SeededUsers
  /\ products = create_document(<<>>, GateProduct, 3)
  /\ orders = create_document(<<>>, GateOrder, 4)
  /\ payments = <<>>
  /\ nextOid = 5
  /\ now = 0
  /\ resp = NoResp
  /\ reqs = Idle

GateBulk == {<<[product_id |-> Str(3), price |-> 0]>>}

GateFields == {p \in ProductAdminUpdates : p.fields_set \subseteq {"price"}}

GateUpdates == {u \in StatusUpdates : u.notes = None}

\* one admin-gated request carrying the given bearer token
AdminRequest(token) ==
  \/ update_product_price(token, Str(3), 0)
  \/ \E payload \in GateFields : admin_update_product(token, Str(3), payload)
  \/ \E items \in GateBulk : bulk_update_prices(token, items)
  \/ admin_list_orders(token, None, 100)
  \/ \E order_id \in {Str(4), Str(5)} : admin_get_order(token, order_id)
  \/ \E payload \in GateUpdates : admin_update_order(token, Str(4), payload)

NextGate ==
  \/ \E token \in Tokens : AdminRequest(token)
  \/ Tick

SpecGate == InitGate /\ [][NextGate]_vars

(***************************************************************************)
(* Payments                                                                *)
(***************************************************************************)
\* PaymentInit: amount >= 0, phone optional
PaymentInits ==
  [order_id : {Str(4)}, method : {"mobile_money", "card"}, amount : {Scale},
   phone : {None, "", "0700123456"}]

\* the reference built from the order id instead of a fresh ObjectId
NewReferenceOfOrder(payload, oid) ==
  [prefix |-> "PMT-", token |-> ObjectId(payload.order_id)]

\* f"PMT-{ObjectId()}"
NewReference(payload, oid) == [prefix |-> "PMT-", token |-> oid]

\* `not payload.phone`
NoPhone(phone) == phone = None \/ phone = ""

init_payment(payload) ==
  /\ Len(payments) < MaxPayments
  /\ IF payload.method = "mobile_money" /\ NoPhone(payload.phone)
     THEN /\ resp' = Error("init_payment", 400,
                           "Phone is required for mobile money")
          /\ UNCHANGED <<payments, nextOid>>
     ELSE LET reference == NewReference(payload, nextOid)
              data == [order_id |-> payload.order_id,
                       method |-> payload.method,
                       amount |-> payload.amount,
                       phone |-> payload.phone,
                       status |-> "initiated",
                       reference |-> reference]
          IN /\ payments' = create_document(payments, data, nextOid + 1)
             /\ nextOid' = nextOid + 2
             /\ resp' = Ok("init_payment",
                           [reference |-> reference, status |-> "initiated"])
  /\ UNCHANGED <<users, products, orders, now, reqs>>

payment_status(reference) ==
  /\ resp' = Ok("payment_status", [reference |-> reference, status |-> "pending"])
  /\ UNCHANGED <<users, products, orders, payments, nextOid, now, reqs>>

NextPay ==
  \/ \E payload \in PaymentInits : init_payment(payload)
  \/ \E oid \in {3, 4} : payment_status([prefix |-> "PMT-", token |-> oid])

SpecPay == InitShop /\ [][NextPay]_vars

(***************************************************************************)
(* Registration, login and admin seeding, by several workers on one store  *)
(***************************************************************************)
Emails == {SEED_ADMIN_EMAIL, "ann@example.com"}

Passwords == {SEED_ADMIN_PASSWORD, "secret"}

\* UserCreate: role defaults to "user"
UserCreates ==
  [email : Emails, password : Passwords, full_name : {"Ann"}, role : {"user"}]

\* collection.find_one({"email": email}): the first document in store order
WithEmail(email) == {i \in DOMAIN users : users[i].email = email}

First(S) == CHOOSE i \in S : \A j \in S : i <= j

Inserting == {w \in DOMAIN reqs : reqs[w].pc = "insert"}

\* register up to its find_one
register_check(w, user) ==
  /\ reqs[w].pc = "idle"
  /\ Len(users) + Cardinality(Inserting) < MaxUsers
  /\ IF WithEmail(user.email) # {}
     THEN /\ resp' = Error("register", 400, "Email already registered")
          /\ UNCHANGED reqs
     ELSE /\ reqs' = [reqs EXCEPT ![w] = [pc |-> "insert", op |-> "register",
                                          user |-> user]]
          /\ UNCHANGED resp
  /\ UNCHANGED <<users, products, orders, payments, nextOid, now>>

\* register from insert_one on; the answer is the stored document as
\* serialize_doc returns it, before response_model=UserOut filters it
register_insert(w) ==
  /\ reqs[w].pc = "insert"
  /\ reqs[w].op = "register"
  /\ LET user == reqs[w].user
         doc == UserDoc(nextOid, user.email, user.password, user.role,
                        user.full_name, now)
     IN /\ users' = Append(users, doc)
        /\ resp' = Ok("register", serialize_doc(doc))
  /\ nextOid' = nextOid + 1
  /\ reqs' = [reqs EXCEPT ![w] = [pc |-> "idle"]]
  /\ UNCHANGED <<products, orders, payments, now>>

\* seed_admin up to its find_one
seed_check(w) ==
  /\ reqs[w].pc = "idle"
  /\ Len(users) + Cardinality(Inserting) < MaxUsers
  /\ IF WithEmail(SEED_ADMIN_EMAIL) # {}
     THEN /\ resp' = Ok("seed_admin",
                        [status |-> "exists", email |-> SEED_ADMIN_EMAIL])
          /\ UNCHANGED reqs
     ELSE /\ reqs' = [reqs EXCEPT ![w] = [pc |-> "insert", op |-> "seed_admin"]]
          /\ UNCHANGED resp
  /\ UNCHANGED <<users, products, orders, payments, nextOid, now>>

\* seed_admin from insert_one on
seed_insert(w) ==
  /\ reqs[w].pc = "insert"
  /\ reqs[w].op = "seed_admin"
  /\ users' = Append(users, UserDoc(nextOid, SEED_ADMIN_EMAIL,
                                    SEED_ADMIN_PASSWORD, "admin", "Admin", now))
  /\ nextOid' = nextOid + 1
  /\ resp' = Ok("seed_admin",
                [status |-> "created", email |-> SEED_ADMIN_EMAIL,
                 password |-> SEED_ADMIN_PASSWORD])
  /\ reqs' = [reqs EXCEPT ![w] = [pc |-> "idle"]]
  /\ UNCHANGED <<products, orders, payments, now>>

\* what login answers in the current state
LoginResponse(username, password) ==
  IF WithEmail(username) = {}
     \/ ~verify_password(password, users[First(WithEmail(username))].password)
  THEN Error("login", 400, "Incorrect email or password")
  ELSE LET user == users[First(WithEmail(username))]
       IN Ok("login",
             [access_token |-> create_access_token(Str(user._id), user.role, now),
              token_type |-> "bearer"])

login(username, password) ==
  /\ resp' = LoginResponse(username, password)
  /\ UNCHANGED <<users, products, orders, payments, nextOid, now, reqs>>

InitAuth ==
  /\ users = <<>>
  /\ products = <<>>
  /\ orders = <<>>
  /\ payments = <<>>
  /\ nextOid = 1
  /\ now = 0
  /\ resp = NoResp
  /\ reqs = Idle

NextAuth ==
  \/ \E w \in 1..NumWorkers, user \in UserCreates : register_check(w, user)
  \/ \E w \in 1..NumWorkers : register_insert(w)
  \/ \E w \in 1..NumWorkers : seed_check(w)
  \/ \E w \in 1..NumWorkers : seed_insert(w)
  \/ \E username \in Emails, password \in Passwords : login(username, password)

SpecAuth == InitAuth /\ [][NextAuth]_vars

(***************************************************************************)
(* Properties                                                              *)
(***************************************************************************)
RECURSIVE TotalUpTo(_, _)
\* the sum of the first n item totals
TotalUpTo(items, n) ==
  IF n = 0 THEN 0 ELSE TotalUpTo(items, n - 1) + items[n].total

TotalOf(items) == TotalUpTo(items, Len(items))

\* |sum of item.total - subtotal| <= 0.01
WithinTolerance(order) ==
  LET d == TotalOf(order.items) - order.subtotal
  IN 100 * d <= Scale /\ 100 * (-d) <= Scale

Last(seq) == seq[Len(seq)]

Front(seq) == SubSeq(seq, 1, Len(seq) - 1)

\* C1: createOrder succeeds and persists exactly one new order iff the item
\* totals sum to the subtotal within 0.01; otherwise it answers 400
\* "Subtotal mismatch" and leaves the order collection as it was.
C1_CreateOrderIffSubtotalMatches ==
  [][\A order \in NewOrders :
       \/ IF WithinTolerance(order)
          THEN /\ Len(orders') = Len(orders) + 1
               /\ \A f \in DOMAIN order : Last(orders')[f] = order[f]
               /\ Front(orders') = orders
               /\ resp'.code = 200
               /\ resp'.body.order_id = Str(Last(orders')._id)
          ELSE /\ resp'.code = 400
               /\ resp'.body.detail = "Subtotal mismatch"
               /\ orders' = orders
       \/ ~create_order(order)]_vars

\* an order was accepted whose subtotal differs from its item sum, after an
\* earlier one was stored
C1_Witness ==
  /\ resp.op = "create_order"
  /\ resp.code = 200
  /\ Len(orders) >= 2
  /\ TotalOf(Last(orders).items) # Last(orders).subtotal
  /\ Len(Last(orders).items) >= 2

\* C2: an admin-gated request with an expired or tampered credential, or one
\* naming a subject absent from the user store, answers 401 whatever role is
\* involved; with a credential that resolves to a non-admin user it answers
\* 403; in both cases no product and no order changes.
C2_AdminGate ==
  [][\A token \in Tokens :
       LET expired == token.exp <= now
           tampered == token.key # SECRET_KEY
           subject == {i \in DOMAIN users : Str(users[i]._id) = token.sub}
           unresolved == expired \/ tampered \/ subject = {}
           nonAdmin == ~unresolved /\ \A i \in subject : users[i].role # "admin"
           refused(code) ==
             resp'.code = code /\ products' = products /\ orders' = orders
       IN \/ (unresolved => refused(401)) /\ (nonAdmin => refused(403))
          \/ ~AdminRequest(token)]_vars

\* a non-admin was refused on an order an admin had updated before, at a time
\* when the first-day tokens have expired
C2_Witness ==
  /\ resp.op = "admin_update_order"
  /\ resp.code = 403
  /\ orders[1].status = "paid"
  /\ now >= ACCESS_TOKEN_EXPIRE_MINUTES

Admitted(token) == require_admin(token, now, users) = 0

StoredAs(coll, id) == {i \in DOMAIN coll : Str(coll[i]._id) = id}

\* C3: updateProductPrice with an id that matches no stored product answers
\* 404 and leaves every product document unchanged.
C3_MissingProductIs404 ==
  [][\A token \in ShopTokens, product_id \in IdStrings, price \in Prices :
       (/\ update_product_price(token, product_id, price)
        /\ Admitted(token)
        /\ StoredAs(products, product_id) = {})
       => resp'.code = 404 /\ products' = products]_vars

MaxOf(S) == CHOOSE i \in S : \A j \in S : j <= i

\* C4: bulkUpdatePrices applies every item independently of the others: it
\* answers {updated, total} with total the number of items and updated the
\* number of items whose id matches a product, creates no document, and every
\* matched product ends with the price given for it.
C4_BulkAppliesEveryItem ==
  [][\A token \in ShopTokens, items \in BulkPriceUpdates :
       (bulk_update_prices(token, items) /\ Admitted(token)) =>
         LET hits == {i \in DOMAIN items :
                        StoredAs(products, items[i].product_id) # {}}
         IN /\ resp'.code = 200
            /\ resp'.body.total = Len(items)
            /\ resp'.body.updated = Cardinality(hits)
            /\ Len(products') = Len(products)
            /\ \A k \in DOMAIN products :
                 LET mine == {i \in hits :
                                items[i].product_id = Str(products[k]._id)}
                 IN IF mine = {} THEN products'[k] = products[k]
                    ELSE products'[k].price = items[MaxOf(mine)].price]_vars

\* C5: initPayment for mobile_money without a phone answers 400 and stores
\* nothing; with a phone it stores one intent with status "initiated" and
\* answers a "PMT-" reference that no earlier intent carries.
C5_InitPayment ==
  [][\A payload \in PaymentInits :
       (init_payment(payload) /\ payload.method = "mobile_money") =>
         IF payload.phone = None \/ payload.phone = ""
         THEN resp'.code = 400 /\ payments' = payments
         ELSE /\ resp'.code = 200
              /\ resp'.body.status = "initiated"
              /\ resp'.body.reference.prefix = "PMT-"
              /\ Len(payments') = Len(payments) + 1
              /\ Front(payments') = payments
              /\ Last(payments').status = "initiated"
              /\ Last(payments').reference = resp'.body.reference
              /\ \A i \in DOMAIN payments :
                   payments[i].reference # resp'.body.reference]_vars

\* a second mobile-money intent was stored
C5_Witness ==
  /\ resp.op = "init_payment"
  /\ resp.code = 200
  /\ Len(payments) >= 2
  /\ Last(payments).method = "mobile_money"
  /\ payments[1].method = "mobile_money"

\* C6: no two stored users share an email, also when register and seedAdmin
\* requests interleave between their existence check and their insert.
C6_EmailsUnique ==
  \A i, j \in DOMAIN users : users[i].email = users[j].email => i = j

\* C7: once a seedAdmin call has returned, exactly one user carries the seed
\* email, that user is an admin, and login with the seed email and the
\* configured password succeeds and issues a token.
C7_SeedAdminUsable ==
  resp.op = "seed_admin" =>
    /\ Cardinality(WithEmail(SEED_ADMIN_EMAIL)) = 1
    /\ \A i \in WithEmail(SEED_ADMIN_EMAIL) : users[i].role = "admin"
    /\ LoginResponse(SEED_ADMIN_EMAIL, SEED_ADMIN_PASSWORD).code = 200

\* C8: the status of every stored order is one of pending, paid, failed,
\* cancelled, fulfilled.
C8_StatusInVocabulary ==
  \A i \in DOMAIN orders : orders[i].status \in StatusVocabulary

\* C9: updateOrder changes only status, the updated timestamp and (when
\* given) notes of the one order matching the id, answers 404 and changes
\* nothing when no order matches, and every stored order keeps a subtotal
\* within 0.01 of the sum of its item totals.
C9_UpdateOrderFrame ==
  [][/\ \A token \in ShopTokens, order_id \in IdStrings, payload \in StatusUpdates :
          (admin_update_order(token, order_id, payload) /\ Admitted(token)) =>
            LET hit == StoredAs(orders, order_id)
            IN /\ hit = {} => resp'.code = 404 /\ orders' = orders
               /\ hit # {} =>
                    /\ resp'.code = 200
                    /\ Len(orders') = Len(orders)
                    /\ \A i \in DOMAIN orders :
                         IF i \in hit
                         THEN /\ \A f \in DOMAIN orders[i] \ {"status", "notes", "updated_at"} :
                                   orders'[i][f] = orders[i][f]
                              /\ orders'[i].status = payload.status
                              /\ orders'[i].notes =
                                   IF payload.notes # None THEN payload.notes
                                   ELSE orders[i].notes
                         ELSE orders'[i] = orders[i]
     /\ \A i \in DOMAIN orders' : WithinTolerance(orders'[i])]_vars

\* C10: updateProductFields sets exactly the fields present in the request
\* (and the updated timestamp) on the product matching the id and returns
\* the document with those values; with no field present it answers 400,
\* with fields present and no matching id 404, changing nothing.
C10_PartialUpdate ==
  [][\A token \in ShopTokens, product_id \in IdStrings,
        payload \in ProductAdminUpdates :
       (admin_update_product(token, product_id, payload) /\ Admitted(token)) =>
         LET hit == StoredAs(products, product_id)
             present == payload.fields_set
         IN IF present = {} THEN resp'.code = 400 /\ products' = products
            ELSE IF hit = {} THEN resp'.code = 404 /\ products' = products
            ELSE /\ resp'.code = 200
                 /\ Len(products') = Len(products)
                 /\ \A i \in DOMAIN products :
                      IF i \in hit
                      THEN /\ \A f \in present :
                                products'[i][f] = payload.values[f]
                           /\ \A f \in DOMAIN products[i] \ (present \cup {"updated_at"}) :
                                products'[i][f] = products[i][f]
                      ELSE products'[i] = products[i]
                 /\ \A f \in present : resp'.body[f] = payload.values[f]]_vars

====
